---------------------------- MODULE Spec2Model ----------------------------
(***************************************************************************)
(* Model of blond/impedances/music.py: class Music, the MuSiC wake-field   *)
(* engine (track_py, track_py_multi_turn) and the quadratic reference      *)
(* (track_classic).                                                        *)
(*                                                                         *)
(* Number model.  The program computes in float64.  Here every float is a  *)
(* residue modulo the prime P (exact arithmetic, no rounding), plus the    *)
(* two non-finite values NaN and Inf.  Arrival times live on an integer    *)
(* grid, alpha and omega_bar keep their true (integer) values, and         *)
(*   np.exp(k)            is  ExpM1^(-k)           (ExpM1 stands for e^-1) *)
(*   np.cos(k), np.sin(k) are the two parts of Cis1^k, Cis1 a point of the *)
(*                        unit circle (cos 1, sin 1)                       *)
(* so exp(a+b) = exp(a)exp(b), cos^2 + sin^2 = 1 and the angle-addition    *)
(* laws hold exactly and nothing else is assumed of them.  Equalities the  *)
(* model finds are equalities of exact arithmetic; in float64 they hold up *)
(* to rounding.                                                            *)
(***************************************************************************)
EXTENDS Integers, Sequences, FiniteSets, TLC

\* ---------------------------------------------------------------- bounds
MaxN == 3        \* longest beam (number of macro-particles)
MaxT == 2        \* arrival times are 0..MaxT grid units
MaxCalls == 2    \* tracking calls per engine

\* ------------------------------------------------------- float64 stand-in
P == 10007
NaN == P
Inf == P + 1
Finite(a) == a \in 0..(P - 1)

F(k) == IF k = NaN \/ k = Inf THEN k ELSE k % P

Add(a, b) ==
    IF a = NaN \/ b = NaN THEN NaN
    ELSE IF a = Inf \/ b = Inf THEN Inf
    ELSE (a + b) % P

Neg(a) == IF Finite(a) THEN (P - a) % P ELSE a

Sub(a, b) == Add(a, Neg(b))

Mul(a, b) ==
    IF a = NaN \/ b = NaN THEN NaN
    ELSE IF a = Inf \/ b = Inf THEN (IF a = 0 \/ b = 0 THEN NaN ELSE Inf)
    ELSE (a * b) % P

RECURSIVE Pow(_, _)
Pow(a, n) ==
    IF n = 0 THEN 1
    ELSE LET h == Pow(a, n \div 2)
             sq == (h * h) % P
         IN IF n % 2 = 1 THEN (sq * a) % P ELSE sq

Recip(a) == Pow(a, P - 2)

\* numpy true division: x/0 is inf (nan for 0/0) with a warning, no exception
Div(a, b) ==
    IF a = NaN \/ b = NaN THEN NaN
    ELSE IF b = Inf THEN (IF a = Inf THEN NaN ELSE 0)
    ELSE IF a = Inf THEN Inf
    ELSE IF b = 0 THEN (IF a = 0 THEN NaN ELSE Inf)
    ELSE (a * Recip(b)) % P

Half == Div(1, 2)

\* np.sqrt of an exact square; of a negative number it is nan (a warning)
Sqrt(x) == IF x < 0 THEN NaN ELSE CHOOSE r \in 0..x : r * r = x

\* largest |alpha * time_difference| and |omega_bar * time_difference|
MaxArg == 5 * (2 * MaxT + 1)

ExpM1 == Div(1, 2)
ExpOf(k) == IF k <= 0 THEN Pow(ExpM1, -k) ELSE Pow(Recip(ExpM1), k)
ExpTable == [k \in (-MaxArg)..MaxArg |-> ExpOf(k)]
Exp(k) == ExpTable[k]

Cis1 == <<Div(3, 5), Div(4, 5)>>
CMul(u, v) == <<Sub(Mul(u[1], v[1]), Mul(u[2], v[2])),
                Add(Mul(u[1], v[2]), Mul(u[2], v[1]))>>
RECURSIVE CPow(_, _)
CPow(u, n) ==
    IF n = 0 THEN <<1, 0>>
    ELSE LET h == CPow(u, n \div 2)
             sq == CMul(h, h)
         IN IF n % 2 = 1 THEN CMul(sq, u) ELSE sq
Cis(k) == IF k >= 0 THEN CPow(Cis1, k) ELSE CPow(<<Cis1[1], Neg(Cis1[2])>>, -k)
CisTable == [k \in (-MaxArg)..MaxArg |-> Cis(k)]
Cos(k) == IF k = NaN THEN NaN ELSE CisTable[k][1]
Sin(k) == IF k = NaN THEN NaN ELSE CisTable[k][2]

\* omega_bar * time_difference, omega_bar possibly nan
Phase(w, td) == IF w = NaN THEN NaN ELSE w * td

\* scipy.constants.e, the elementary charge
e == 11

\* ----------------------------------------------------------------- state
VARIABLES
    pc,                      \* "new", "ready" (engine built) or "failed"
    error,                   \* exception raised by __init__, or "none"
    args,                    \* arguments of __init__ (resonator, ...)
    beam_dt, beam_dE,        \* Beam.dt, Beam.dE (shared with the owner)
    coef,                    \* alpha, omega_bar, const, coeff1..coeff4
    induced_voltage,
    input_first_component, input_second_component,
    t_rev, last_dt,
    array_parameters,
    calls, lastOp,           \* tracking calls made; the last operation
    prev_dt                  \* history: Beam.dt as the tracking call before
                             \* the last one left it (at first, as given)

vars == <<pc, error, args, beam_dt, beam_dE, coef, induced_voltage,
          input_first_component, input_second_component, t_rev, last_dt,
          array_parameters, calls, lastOp, prev_dt>>

engine == <<coef, induced_voltage, input_first_component,
            input_second_component, t_rev, last_dt, array_parameters>>

alpha == coef.alpha
omega_bar == coef.omega_bar
const == coef.const
coeff1 == coef.coeff1
coeff2 == coef.coeff2
coeff3 == coef.coeff3
coeff4 == coef.coeff4

N == Len(beam_dt)

\* ---------------------------------------------------------------- inputs
\* resonator = [R_S, omega_R, Q]; Q is the rational Q.n / Q.d.  The values
\* are chosen so that alpha and omega_bar are whole numbers.
UnderDamped == {<<3, 5, [n |-> 5, d |-> 6]>>,      \* alpha 3, omega_bar 4
                <<3, 5, [n |-> 5, d |-> 8]>>}      \* alpha 4, omega_bar 3
NotUnderDamped == {<<3, 5, [n |-> 1, d |-> 2]>>,   \* Q = 0.5: omega_bar 0
                   <<3, 4, [n |-> 2, d |-> 5]>>,   \* Q = 0.4: omega_bar nan
                   <<3, 5, [n |-> 0, d |-> 1]>>}   \* Q = 0
Reference == <<3, 5, [n |-> 5, d |-> 6]>>

MusicArgs ==
    {[resonator |-> Reference, n_macroparticles |-> 2, n_particles |-> 7,
      t_rev |-> t] : t \in {1, MaxT + 1}}
    \cup {[resonator |-> r, n_macroparticles |-> 2, n_particles |-> 7,
           t_rev |-> MaxT + 1] : r \in UnderDamped}
    \cup {[resonator |-> r, n_macroparticles |-> 2, n_particles |-> 7,
           t_rev |-> MaxT + 1] : r \in NotUnderDamped}
    \cup {[resonator |-> Reference, n_macroparticles |-> m, n_particles |-> 7,
           t_rev |-> MaxT + 1] : m \in {-1, 0}}

Times == 0..MaxT
Beams(n) == [1..n -> Times]
Energies(n) == {[i \in 1..n |-> 0], [i \in 1..n |-> i]}

\* -------------------------------------------------------------- __init__
NoCoef == [alpha |-> 0, omega_bar |-> 0, const |-> 0, coeff1 |-> 0,
           coeff2 |-> 0, coeff3 |-> 0, coeff4 |-> 0]

Init ==
    /\ pc = "new"
    /\ error = "none"
    /\ args \in MusicArgs
    /\ \E n \in 0..MaxN : beam_dt \in Beams(n) /\ beam_dE \in Energies(n)
    /\ coef = NoCoef
    /\ induced_voltage = <<>>
    /\ input_first_component = 0
    /\ input_second_component = 0
    /\ t_rev = 0
    /\ last_dt = 0
    /\ array_parameters = <<>>
    /\ calls = 0
    /\ lastOp = "none"
    /\ prev_dt = beam_dt

\* the derived attributes, lines 106-120; Python scalars: a zero divisor in
\* lines 111 and 113 raises, numpy's omega_bar in lines 117-120 does not
Alpha(a) == (a.resonator[2] * a.resonator[3].d) \div (2 * a.resonator[3].n)
OmegaBar(a) == Sqrt(a.resonator[2] * a.resonator[2] - Alpha(a) * Alpha(a))
QF(a) == Div(F(a.resonator[3].n), F(a.resonator[3].d))
Const(a) ==
    Div(Mul(Mul(Mul(Neg(e), F(a.resonator[1])), F(a.resonator[2])), F(a.n_particles)),
        Mul(F(a.n_macroparticles), QF(a)))
Coefficients(a) ==
    LET R_S == F(a.resonator[1])
        omega_R == F(a.resonator[2])
        al == F(Alpha(a))
        ob == F(OmegaBar(a))
    IN [alpha |-> Alpha(a),
        omega_bar |-> OmegaBar(a),
        const |-> Const(a),
        coeff1 |-> Div(Neg(al), ob),
        coeff2 |-> Div(Mul(Neg(R_S), omega_R), Mul(QF(a), ob)),
        coeff3 |-> Div(Mul(omega_R, QF(a)), Mul(R_S, ob)),
        coeff4 |-> Div(al, ob)]

InitError(a, dt) ==
    IF a.resonator[3].n = 0 THEN "ZeroDivisionError"                  \* line 111
    ELSE IF a.n_macroparticles * a.resonator[3].n = 0 THEN "ZeroDivisionError" \* 113
    ELSE IF Len(dt) = 0 THEN "IndexError"                              \* line 116
    ELSE "none"

Music_init ==
    /\ pc = "new"
    /\ IF InitError(args, beam_dt) # "none"
       THEN /\ pc' = "failed"
            /\ error' = InitError(args, beam_dt)
            /\ UNCHANGED engine
       ELSE /\ pc' = "ready"
            /\ error' = "none"
            /\ coef' = Coefficients(args)
            /\ induced_voltage' =
                 [i \in 1..N |-> IF i = 1 THEN Div(Const(args), 2) ELSE 0]
            /\ input_first_component' = 1
            /\ input_second_component' = 0
            /\ t_rev' = args.t_rev
            /\ last_dt' = beam_dt[N]
            /\ array_parameters' = <<1, 0, args.t_rev, beam_dt[N]>>
    /\ lastOp' = "init"
    /\ UNCHANGED <<args, beam_dt, beam_dE, calls, prev_dt>>

\* ------------------------------------------------------------ recurrence
\* lines 199-208 (the same text at 241-249 and 260-269)
\* mutant: the second component's share is left out
product_first_component_NoCross(x1, x2, time_difference) ==
    LET exp_term == Exp(-alpha * time_difference)
        cos_term == Cos(Phase(omega_bar, time_difference))
        sin_term == Sin(Phase(omega_bar, time_difference))
    IN Mul(exp_term, Mul(Add(cos_term, Mul(coeff1, sin_term)), x1))

product_first_component(x1, x2, time_difference) ==
    LET exp_term == Exp(-alpha * time_difference)
        cos_term == Cos(Phase(omega_bar, time_difference))
        sin_term == Sin(Phase(omega_bar, time_difference))
    IN Mul(exp_term, Add(Mul(Add(cos_term, Mul(coeff1, sin_term)), x1),
                         Mul(Mul(coeff2, sin_term), x2)))

product_second_component(x1, x2, time_difference) ==
    LET exp_term == Exp(-alpha * time_difference)
        cos_term == Cos(Phase(omega_bar, time_difference))
        sin_term == Sin(Phase(omega_bar, time_difference))
    IN Mul(exp_term, Add(Mul(Mul(coeff3, sin_term), x1),
                         Mul(Add(cos_term, Mul(coeff4, sin_term)), x2)))

\* np.argsort, default kind (quicksort, not stable): a permutation that
\* sorts dt; equal arrival times come out in their old order or reversed
Sorts(dt, p) ==
    \A i \in 1..(Len(dt) - 1) : dt[p[i]] <= dt[p[i + 1]]
KeepsTies(dt, p) ==
    \A i \in 1..(Len(dt) - 1) : dt[p[i]] = dt[p[i + 1]] => p[i] < p[i + 1]
FlipsTies(dt, p) ==
    \A i \in 1..(Len(dt) - 1) : dt[p[i]] = dt[p[i + 1]] => p[i] > p[i + 1]
ArgSort(dt) ==
    {p \in Permutations(1..Len(dt)) :
        Sorts(dt, p) /\ (KeepsTies(dt, p) \/ FlipsTies(dt, p))}

\* a[indices_sorted]
Take(a, indices_sorted) == [i \in 1..Len(a) |-> a[indices_sorted[i]]]

\* the object and its beam, as the methods read and write them
Self ==
    [dt |-> beam_dt, dE |-> beam_dE, V |-> induced_voltage,
     x1 |-> input_first_component, x2 |-> input_second_component,
     last_dt |-> last_dt, array_parameters |-> array_parameters]

Becomes(self) ==
    /\ beam_dt' = self.dt
    /\ beam_dE' = self.dE
    /\ induced_voltage' = self.V
    /\ input_first_component' = self.x1
    /\ input_second_component' = self.x2
    /\ last_dt' = self.last_dt
    /\ array_parameters' = self.array_parameters

\* mutant: dt is sorted, dE is left in its old order
SortBeam_DtOnly(self, indices_sorted) ==
    [self EXCEPT !.dt = Take(self.dt, indices_sorted)]

\* lines 188-190 (237-239, 286-288)
SortBeam(self, indices_sorted) ==
    [self EXCEPT !.dt = Take(self.dt, indices_sorted),
                 !.dE = Take(self.dE, indices_sorted)]

\* mutant: the voltage is subtracted from the energy
Advance_Subtracts(self, k, p1, p2) ==
    [self EXCEPT !.V[k + 1] = Mul(const, Add(Half, p1)),
                 !.dE[k + 1] = Sub(@, Mul(const, Add(Half, p1))),
                 !.x1 = Add(p1, 1),
                 !.x2 = p2]

\* lines 210-215 for 0-based i = k - 1, the two products given
Voltage(p1) == Mul(const, Add(Half, p1))
Advance(self, k, p1, p2) ==
    [self EXCEPT !.V[k + 1] = Voltage(p1),
                 !.dE[k + 1] = Add(@, Voltage(p1)),
                 !.x1 = Add(p1, 1),
                 !.x2 = p2]

\* one pass of the loop body, lines 197-215
LoopBody(self, k) ==
    Advance(self, k,
            product_first_component(self.x1, self.x2, self.dt[k + 1] - self.dt[k]),
            product_second_component(self.x1, self.x2, self.dt[k + 1] - self.dt[k]))

\* for i in range(len(self.beam.dt)-1), lines 195-215 (256-276)
RECURSIVE Loop(_, _)
Loop(self, k) ==
    IF k > Len(self.dt) - 1 THEN self ELSE Loop(LoopBody(self, k), k + 1)

\* lines 191-193
PyHead(self) ==
    [self EXCEPT !.dE[1] = Add(@, self.V[1]), !.x1 = 1, !.x2 = 0]

\* mutant: last_dt is not recorded
SetLastDt_Skipped(self) == self

\* mutant: the kernel's array is brought up to date as well
SetLastDt_SyncsArray(self) ==
    [self EXCEPT !.last_dt = self.dt[Len(self.dt)],
                 !.array_parameters =
                     <<self.x1, self.x2, t_rev, self.dt[Len(self.dt)]>>]

\* line 217 (278)
SetLastDt(self) == [self EXCEPT !.last_dt = self.dt[Len(self.dt)]]

\* track_py, lines 188-217
TrackPy(self, indices_sorted) ==
    SetLastDt(Loop(PyHead(SortBeam(self, indices_sorted)), 1))

\* mutant: the continuation starts from (1, 0) like the first turn
MultiTurnHead_Resets(self) ==
    LET time_difference_0 == self.dt[1] + t_rev - self.last_dt
    IN Advance(self, 0,
               product_first_component(1, 0, time_difference_0),
               product_second_component(1, 0, time_difference_0))

\* lines 240-254
MultiTurnHead(self) ==
    LET time_difference_0 == self.dt[1] + t_rev - self.last_dt
    IN Advance(self, 0,
               product_first_component(self.x1, self.x2, time_difference_0),
               product_second_component(self.x1, self.x2, time_difference_0))

\* track_py_multi_turn, lines 237-278
TrackPyMultiTurn(self, indices_sorted) ==
    SetLastDt(Loop(MultiTurnHead(SortBeam(self, indices_sorted)), 1))

\* lines 296-301: one term of the sum
Term(dt, i, j) ==
    LET time_difference == dt[i + 1] - dt[j]
        exp_term == Exp(-alpha * time_difference)
        cos_term == Cos(Phase(omega_bar, time_difference))
        sin_term == Sin(Phase(omega_bar, time_difference))
    IN Mul(exp_term, Add(cos_term, Mul(coeff1, sin_term)))

\* for j in range(i+1), lines 294-301: induced_voltage[i+1] += ...
RECURSIVE Inner(_, _, _, _)
Inner(dt, acc, k, j) ==
    IF j > k THEN acc ELSE Inner(dt, Add(acc, Term(dt, k, j)), k, j + 1)

\* lines 303-305
ClassicStore(self, k, sum) ==
    [self EXCEPT !.V[k + 1] = Mul(const, Add(Half, sum)),
                 !.dE[k + 1] = Add(@, Mul(const, Add(Half, sum)))]

\* for i in range(len(self.beam.dt)-1), lines 292-305
RECURSIVE Outer(_, _)
Outer(self, k) ==
    IF k > Len(self.dt) - 1 THEN self
    ELSE Outer(ClassicStore(self, k, Inner(self.dt, self.V[k + 1], k, 1)), k + 1)

\* lines 289-290
ClassicHead(self) ==
    [self EXCEPT !.dE[1] = Add(@, self.V[1]),
                 !.V = [i \in 1..Len(self.V) |-> IF i = 1 THEN self.V[1] ELSE 0]]

\* mutant: the reference records last_dt as track_py does
TrackClassic_SetsLastDt(self, indices_sorted) ==
    SetLastDt(Outer(ClassicHead(SortBeam(self, indices_sorted)), 1))

\* track_classic, lines 286-305
TrackClassic(self, indices_sorted) ==
    Outer(ClassicHead(SortBeam(self, indices_sorted)), 1)

\* a tracking call ends: bookkeeping of the model
Called(op) ==
    /\ calls' = calls + 1
    /\ lastOp' = op
    /\ prev_dt' = IF lastOp = "BeamUpdate" THEN prev_dt ELSE beam_dt
    /\ UNCHANGED <<pc, error, args, coef, t_rev>>

track_py ==
    /\ pc = "ready"
    /\ calls < MaxCalls
    /\ \E indices_sorted \in ArgSort(beam_dt) :
         \E self \in {TrackPy(Self, indices_sorted)} : Becomes(self)
    /\ Called("track_py")

track_py_multi_turn ==
    /\ pc = "ready"
    /\ calls < MaxCalls
    /\ \E indices_sorted \in ArgSort(beam_dt) :
         \E self \in {TrackPyMultiTurn(Self, indices_sorted)} : Becomes(self)
    /\ Called("track_py_multi_turn")

track_classic ==
    /\ pc = "ready"
    /\ calls < MaxCalls
    /\ \E indices_sorted \in ArgSort(beam_dt) :
         \E self \in {TrackClassic(Self, indices_sorted)} : Becomes(self)
    /\ Called("track_classic")

Next ==
    \/ Music_init
    \/ track_py
    \/ track_py_multi_turn
    \/ track_classic

\* the engine alone: any sequence of tracking calls on one beam
Spec == Init /\ [][Next]_vars

\* ------------------------------------------------------- the turn protocol
\* The docstrings' use: track_py at turn 1, track_py_multi_turn from turn 2
\* on.  The beam is shared by reference (line 105): between two turns its
\* owner moves one particle by one grid unit.
BeamUpdate ==
    /\ pc = "ready"
    /\ lastOp \in {"track_py", "track_py_multi_turn"}
    /\ calls < MaxCalls
    /\ \E i \in 1..N, t \in Times :
         /\ t \in {beam_dt[i] - 1, beam_dt[i] + 1}
         /\ beam_dt' = [beam_dt EXCEPT ![i] = t]
    /\ lastOp' = "BeamUpdate"
    /\ prev_dt' = beam_dt
    /\ UNCHANGED <<pc, error, args, beam_dE, engine, calls>>

FirstTurn == calls = 0 /\ track_py
LaterTurn == calls > 0 /\ track_py_multi_turn

InitTurns ==
    /\ Init
    /\ args.resonator = Reference
    /\ args.n_macroparticles > 0
    /\ beam_dE = [i \in 1..N |-> i]

NextTurns ==
    \/ Music_init
    \/ FirstTurn
    \/ BeamUpdate
    \/ LaterTurn

SpecTurns == InitTurns /\ [][NextTurns]_vars

\* ----------------------------------------------------------------- claims
\* Q > 0.5: the regime the engine is defined for (omega_bar real, non-zero)
QAboveHalf == 2 * args.resonator[3].n > args.resonator[3].d

\* this step is a tracking call of the given kind
Step(op) == lastOp' = op /\ calls' = calls + 1
Tracked == Step("track_py") \/ Step("track_py_multi_turn") \/ Step("track_classic")

NonDecreasing(dt) == \A i \in 1..(Len(dt) - 1) : dt[i] <= dt[i + 1]

\* C1: on a freshly constructed engine with an under-damped resonator,
\* track_py leaves the induced_voltage array that track_classic would leave
\* on the same engine and the same (unsorted) beam, at every index.
C1_PyEqualsClassic ==
    [][(lastOp = "init" /\ pc = "ready" /\ QAboveHalf /\ Step("track_py"))
        => \A p \in ArgSort(beam_dt) : induced_voltage' = TrackClassic(Self, p).V]_vars

\* C1 witness: a first track_py on the unsorted beam (2, 0, 1) has run; the
\* two positive gaps made the second recurrence component matter.
C1_Witness ==
    /\ lastOp = "track_py" /\ calls = 1 /\ QAboveHalf
    /\ prev_dt = <<2, 0, 1>> /\ beam_dt = <<0, 1, 2>>
    /\ input_second_component # 0
    /\ induced_voltage[3] # induced_voltage[2]

\* C2: whenever track_py has just returned, whatever calls came before it,
\* induced_voltage[0] is const/2.
C2_SelfWake ==
    (lastOp = "track_py" /\ QAboveHalf) => induced_voltage[1] = Div(const, 2)

\* C3: a tracking call leaves beam.dt non-decreasing and a permutation of
\* what it was, and beam.dE (less the voltage just added) permuted alike.
C3_SortedPermuted ==
    [][Tracked =>
        /\ NonDecreasing(beam_dt')
        /\ \E p \in Permutations(1..N) :
             /\ beam_dt' = Take(beam_dt, p)
             /\ QAboveHalf =>
                  \A i \in 1..N :
                     Sub(beam_dE'[i], induced_voltage'[i]) = beam_dE[p[i]]]_vars

\* C3 witness: a call sorted the beam (2, 1, 0); the particle that came
\* last, with energy 3, is now first.
C3_Witness ==
    /\ lastOp \in {"track_py", "track_py_multi_turn", "track_classic"}
    /\ calls = 1 /\ QAboveHalf
    /\ prev_dt = <<2, 1, 0>> /\ beam_dt = <<0, 1, 2>>
    /\ Sub(beam_dE[1], induced_voltage[1]) = 3

\* C4: an engine exists only if Q > 0.5, n_macroparticles > 0 and the beam
\* is not empty; every other construction fails.
C4_ConstructionChecked ==
    pc = "ready" => (QAboveHalf /\ args.n_macroparticles > 0 /\ N >= 1)

\* C5 as stated: track_classic leaves (x1, x2, last_dt) as track_py would.
C5_ClassicStateAsPy ==
    [][Step("track_classic") =>
        \E p \in ArgSort(beam_dt) :
           /\ input_first_component' = TrackPy(Self, p).x1
           /\ input_second_component' = TrackPy(Self, p).x2
           /\ last_dt' = TrackPy(Self, p).last_dt]_vars

\* C5 amended: track_classic leaves (x1, x2, last_dt) as they were before
\* the call; beam.dt, beam.dE and induced_voltage it leaves as track_py
\* would (under-damped resonator).
C5_ClassicKeepsState ==
    [][Step("track_classic") =>
        /\ input_first_component' = input_first_component
        /\ input_second_component' = input_second_component
        /\ last_dt' = last_dt
        /\ QAboveHalf =>
             \E p \in ArgSort(beam_dt) :
                /\ beam_dt' = TrackPy(Self, p).dt
                /\ beam_dE' = TrackPy(Self, p).dE
                /\ induced_voltage' = TrackPy(Self, p).V]_vars

\* C5 witness: track_classic ran first on the beam (2, 0, 1): last_dt is
\* still 1, not the largest arrival time, and x1 is still 1.
C5_Witness ==
    /\ lastOp = "track_classic" /\ calls = 1 /\ QAboveHalf
    /\ prev_dt = <<2, 0, 1>> /\ beam_dt = <<0, 1, 2>>
    /\ last_dt = 1 /\ input_first_component = 1
    /\ induced_voltage[3] # 0

\* C6: after a tracking call energy_deviation[i] is the energy of the
\* particle sorted into place i plus induced_voltage[i] as the call left
\* it; a beam of zero energies ends with energy_deviation = induced_voltage.
C6_VoltageAddedOnce ==
    [][(Tracked /\ QAboveHalf) =>
        /\ \E p \in ArgSort(beam_dt) :
              \A i \in 1..N :
                 beam_dE'[i] = Add(beam_dE[p[i]], induced_voltage'[i])
        /\ (\A i \in 1..N : beam_dE[i] = 0) => beam_dE' = induced_voltage']_vars

\* C6 witness: a first call on three particles of zero energy has run.
C6_Witness ==
    /\ calls = 1 /\ QAboveHalf /\ N = 3
    /\ lastOp \in {"track_py", "track_py_multi_turn", "track_classic"}
    /\ beam_dE = induced_voltage
    /\ beam_dt = <<0, 1, 2>>
    /\ \A i \in 1..N : induced_voltage[i] # 0

\* C7: (x1, x2, last_dt) is (1, 0, dt[N-1]) after construction; track_py
\* and track_py_multi_turn leave last_dt the largest arrival time; the
\* beam owner's update leaves the three alone, and the continuation call
\* starts from them.
C7_WakeState ==
    [][/\ (lastOp' = "init" /\ pc' = "ready") =>
            /\ input_first_component' = 1
            /\ input_second_component' = 0
            /\ last_dt' = beam_dt[N]
       /\ (Step("track_py") \/ Step("track_py_multi_turn")) =>
            /\ last_dt' = beam_dt'[N]
            /\ \A i \in 1..N : beam_dt'[i] <= last_dt'
       /\ (lastOp' = "BeamUpdate" /\ lastOp # "BeamUpdate") =>
            /\ input_first_component' = input_first_component
            /\ input_second_component' = input_second_component
            /\ last_dt' = last_dt
       /\ Step("track_py_multi_turn") =>
            induced_voltage'[1] =
              Voltage(product_first_component(
                        input_first_component, input_second_component,
                        beam_dt'[1] + t_rev - last_dt))]_vars

\* C7 witness: turn 2 was tracked after the owner moved a particle.
C7_Witness ==
    /\ lastOp = "track_py_multi_turn" /\ calls = 2 /\ N = 3
    /\ prev_dt # beam_dt
    /\ last_dt = beam_dt[N]
    /\ input_first_component # 1

\* C8: after track_py on a beam whose particles share one arrival time,
\* induced_voltage[i] = const*(i + 0.5) for every i.
C8_EqualTimes ==
    (lastOp = "track_py" /\ QAboveHalf /\ \A i \in 1..N : beam_dt[i] = beam_dt[1])
        => \A i \in 1..N : induced_voltage[i] = Mul(const, Add(Half, i - 1))

\* turn 1's arrival times followed by turn 2's plus t_rev, and a new
\* engine's state on such a beam; BothTurns is in order already, so
\* track_py's argsort changes nothing
BothTurns == prev_dt \o [i \in 1..N |-> beam_dt[i] + t_rev]
InOrder(dt) == [i \in 1..Len(dt) |-> i]
Fresh(dt) ==
    [dt |-> dt, dE |-> [i \in 1..Len(dt) |-> 0],
     V |-> [i \in 1..Len(dt) |-> IF i = 1 THEN Div(const, 2) ELSE 0],
     x1 |-> 1, x2 |-> 0, last_dt |-> dt[Len(dt)],
     array_parameters |-> array_parameters]

\* C9: turn 1 by track_py, turn 2 by track_py_multi_turn, the second turn
\* not starting before the first ended: turn 2's induced_voltage is the
\* second half of what one track_py gives on the 2N particles, turn 1's
\* arrival times followed by turn 2's plus t_rev.
C9_Continuation ==
    (/\ lastOp = "track_py_multi_turn" /\ calls = 2
     /\ beam_dt[1] + t_rev >= prev_dt[N])
        => /\ Sorts(BothTurns, InOrder(BothTurns))
           /\ \A i \in 1..N :
                induced_voltage[i] =
                  TrackPy(Fresh(BothTurns), InOrder(BothTurns)).V[N + i]

\* C9 witness: turn 2's beam differs from turn 1's and starts after it.
C9_Witness ==
    /\ lastOp = "track_py_multi_turn" /\ calls = 2 /\ N = 3
    /\ prev_dt = <<0, 1, 2>> /\ beam_dt = <<0, 2, 2>>
    /\ beam_dt[1] + t_rev > prev_dt[N]
    /\ input_second_component # 0

\* what track_cpp_multi_turn passes to bm.music_track_multiturn
KernelArgs ==
    [dt |-> beam_dt, dE |-> beam_dE, induced_voltage |-> induced_voltage,
     array_parameters |-> array_parameters, coef |-> coef]

\* C10: the array handed to the compiled kernel (lines 167-170) is set by
\* __init__ to (1, 0, t_rev, dt[-1]) and no Python-path call changes it.
C10_ArrayParametersKept ==
    [][/\ (lastOp' = "init" /\ pc' = "ready") =>
            KernelArgs.array_parameters' = <<1, 0, args.t_rev, beam_dt[N]>>
       /\ pc = "ready" =>
            KernelArgs.array_parameters' = KernelArgs.array_parameters]_vars

\* C10 witness: after two Python-path calls the kernel's array still holds
\* the construction-time state, which is not the state those calls left.
C10_Witness ==
    /\ calls = 2 /\ lastOp = "track_py_multi_turn" /\ QAboveHalf
    /\ KernelArgs.array_parameters[1] = 1
    /\ input_first_component # 1
    /\ KernelArgs.array_parameters[4] # last_dt

=============================================================================
